---- MODULE Spec2Model ----
(***************************************************************************)
(* Model of the test-generation helpers of the repository:                 *)
(*   smart_update.py  get_changed_functions, update_test_file,             *)
(*                    get_existing_test_code                               *)
(*   context.py       extract_skeleton                                     *)
(* and of the todo store they generate tests for:                          *)
(*   app.py           create_todo, list_todos, update_todo, delete_todo    *)
(* and of the driver that builds the prompt:                               *)
(*   generate_tests.py  generate_test_code                                 *)
(* and of the script that screens a generated test file:                   *)
(*   validate_generated_test.py  the four checks and the main block        *)
(*                                                                         *)
(* A text is the list of its lines, text.split("\n"): the empty string is  *)
(* the one-line text <<Blank>>, and a text that ends with a newline has a  *)
(* last line that is empty.  A line is a record that carries what the      *)
(* Python parser reads from it.                                            *)
(***************************************************************************)
EXTENDS Integers, Sequences, FiniteSets, TLC

VARIABLES
    app_code,           \* get_changed_functions: the source text
    diff,               \* get_changed_functions: the unified diff text
    changed_functions,  \* get_changed_functions: how the call ended
    code,               \* extract_skeleton: the source text
    skeleton,           \* extract_skeleton: how the call ended
    test_file,          \* the file at test_file_path: Absent or its text
    new_test_code,      \* update_test_file: the new test code
    function_name,      \* update_test_file: the base function name
    update_result,      \* update_test_file: how the last call ended
    calls,              \* update_test_file: calls made so far
    lookup_result,      \* get_existing_test_code: how the last call ended
    lookups,            \* get_existing_test_code: calls made so far
    todos,              \* app.py: the store, a dict in insertion order
    next_id,            \* app.py: the id the next created todo gets
    request,            \* app.py: the last request served
    response,           \* app.py: the response to it
    live,               \* history: ids handed out by create_todo and not
                        \* since removed by delete_todo
    issued,             \* history: the ids create_todo has returned, in order
    extractor,          \* generate_tests.py: extract_skeleton was imported
    api_key,            \* generate_tests.py: API_KEY is set, client exists
    diff_arg,           \* generate_test_code: the diff argument
    generated,          \* generate_test_code: how the call ended
    check_index,        \* validate_generated_test.py: position in `checks`
    checks_run,         \* history: the checks called so far, in order
    validation_passed,  \* values logged for the metric validation_passed
    validation_error,   \* values logged for the param validation_error
    invalid_test,       \* the file invalid_test.py: Absent or its text
    artifacts,          \* the files logged as artifacts
    exit_status,        \* how the script ended, if it has
    pc,                 \* concurrent create_todo: each handler's next statement
    tids,               \* concurrent create_todo: each handler's local tid
    payloads,           \* concurrent create_todo: each handler's payload
    returned            \* concurrent create_todo: what each handler returned

mapper_vars == <<app_code, diff, changed_functions>>
skeleton_vars == <<code, skeleton>>
patcher_vars ==
    <<test_file, new_test_code, function_name, update_result, calls,
      lookup_result, lookups>>
todo_vars == <<todos, next_id, request, response, live, issued>>
driver_vars == <<extractor, api_key, diff_arg, generated>>
validator_vars ==
    <<check_index, checks_run, validation_passed, validation_error,
      invalid_test, artifacts, exit_status>>
handler_vars == <<pc, tids, payloads, returned>>
vars ==
    <<mapper_vars, skeleton_vars, patcher_vars, todo_vars, driver_vars,
      validator_vars, handler_vars>>

-----------------------------------------------------------------------------
(* Bounds of the enumerated inputs *)

MaxLines == 4       \* lines of a source text or of a test file
MaxAppLines == 3    \* lines of the source text given to the mapper
MaxHunks == 2       \* lines of a diff text
MaxStart == 2       \* largest new-file start line of a hunk header
MaxCount == 2       \* largest new-file line count of a hunk header
MaxTodos == 3       \* todos created in one run of the app
MaxCodeLines == 3   \* lines of a generated test file under validation
MaxCalls == 2       \* calls of update_test_file on the same file

-----------------------------------------------------------------------------
(* Python values *)

None == "None"
NotCalled == [raised |-> "", returned |-> FALSE, value |-> None]
Return(v) == [raised |-> "", returned |-> TRUE, value |-> v]
Raise(e) == [raised |-> e, returned |-> FALSE, value |-> None]

-----------------------------------------------------------------------------
(* Lines of Python source text *)

Ln(k, name) ==
    [k |-> k, name |-> name, async |-> FALSE, params |-> "", ret |-> "",
     inline |-> FALSE]

Blank == Ln("blank", "")
\* def name(params) [-> ret]:      (inline: the body follows on the same line)
Def(name, async, params, ret, inline) ==
    [k |-> "def", name |-> name, async |-> async, params |-> params,
     ret |-> ret, inline |-> inline]

SimpleKinds == {"import", "assign", "expr"}
HeaderKinds == {"def", "class"}

-----------------------------------------------------------------------------
(* ast.parse, for the statements the helpers look at.  A node carries the  *)
(* 1-based line numbers the parser reports: lineno is the line of the      *)
(* `def`/`class` keyword, never a decorator line; end_lineno is the last   *)
(* line of the body.                                                       *)

SyntaxError == [ok |-> FALSE, body |-> <<>>]

NodeType(ln) ==
    CASE ln.k = "import" -> "Import"
      [] ln.k = "import_open" -> "ImportFrom"
      [] ln.k = "assign" -> "Assign"
      [] ln.k = "expr" -> "Expr"
      [] ln.k = "class" -> "ClassDef"
      [] ln.k = "def" /\ ln.async -> "AsyncFunctionDef"
      [] OTHER -> "FunctionDef"

\* the numbering of Python before 3.8: a decorated definition starts at its
\* first decorator
Node_from_decorator(lines, first, last, decos) ==
    [type |-> NodeType(lines[first]), name |-> lines[first].name,
     lineno |-> IF decos = <<>> THEN first ELSE decos[1],
     end_lineno |-> last, decorator_list |-> decos,
     returns |-> lines[first].ret # ""]

Node(lines, first, last, decos) ==
    [type |-> NodeType(lines[first]), name |-> lines[first].name,
     lineno |-> first, end_lineno |-> last, decorator_list |-> decos,
     returns |-> lines[first].ret # ""]

\* the last line of the indented block under the header at line i, 0 if the
\* header has no block: blank lines inside the block belong to it, blank
\* lines after it do not
BlockEnd(lines, i) ==
    LET ends == {j \in (i + 1)..Len(lines) :
                    /\ lines[j].k = "body"
                    /\ \A m \in (i + 1)..j : lines[m].k \in {"body", "blank"}}
    IN  IF ends = {} THEN 0 ELSE CHOOSE j \in ends : \A m \in ends : m <= j

RECURSIVE ParseFrom(_, _, _, _)
ParseFrom(lines, i, decos, acc) ==
    IF i > Len(lines)
    THEN IF decos = <<>> THEN [ok |-> TRUE, body |-> acc] ELSE SyntaxError
    ELSE LET ln == lines[i] IN
         CASE ln.k = "blank" -> ParseFrom(lines, i + 1, decos, acc)
           [] ln.k = "deco" -> ParseFrom(lines, i + 1, Append(decos, i), acc)
           [] ln.k \in HeaderKinds ->
                LET e == IF ln.inline THEN i ELSE BlockEnd(lines, i) IN
                IF e = 0 THEN SyntaxError
                ELSE ParseFrom(lines, e + 1, <<>>,
                               Append(acc, Node(lines, i, e, decos)))
           [] ln.k \in SimpleKinds ->
                IF decos # <<>> THEN SyntaxError
                ELSE ParseFrom(lines, i + 1, <<>>,
                               Append(acc, Node(lines, i, i, <<>>)))
           [] ln.k = "import_open" ->
                IF decos # <<>> \/ i = Len(lines) THEN SyntaxError
                ELSE IF lines[i + 1].k # "import_close" THEN SyntaxError
                ELSE ParseFrom(lines, i + 2, <<>>,
                               Append(acc, Node(lines, i, i + 1, <<>>)))
           [] OTHER -> SyntaxError

parse(text) == ParseFrom(text, 1, <<>>, <<>>)

FunctionTypes == {"FunctionDef", "AsyncFunctionDef"}

-----------------------------------------------------------------------------
(* Unified diff text: a list of lines.  A hunk line is `@@ -a[,b] +c[,d] @@`*)
(* at the start of a line; old_count / new_count tell whether `,b` / `,d`  *)
(* are written.  Any other line is a text line.                            *)

Hunk(old_count, start, new_count, count) ==
    [k |-> "hunk", old_count |-> old_count, start |-> start,
     new_count |-> new_count, count |-> count]
DiffText == [k |-> "text", old_count |-> FALSE, start |-> 0,
             new_count |-> FALSE, count |-> 0]

\* re.findall(r"^@@ -\d+,\d+ \+(\d+),(\d+) @@", diff, re.MULTILINE)
MatchesHunkRegex(dl) == dl.k = "hunk" /\ dl.old_count /\ dl.new_count

hunk_headers(d) ==
    LET idx == {i \in 1..Len(d) : MatchesHunkRegex(d[i])} IN
    {<<d[i].start, d[i].count>> : i \in idx}

\* range(1, count + 1) in place of range(count)
changed_lines_shifted(d) ==
    UNION {{h[1] + i : i \in 1..h[2]} : h \in hunk_headers(d)}

\* for start_line, count in hunk_headers: for i in range(int(count)): add
changed_lines(d) ==
    UNION {{h[1] + i : i \in 0..(h[2] - 1)} : h \in hunk_headers(d)}

\* set(range(node.lineno, node.end_lineno + 1))
func_lines(node) == node.lineno..node.end_lineno

get_changed_functions(source, d) ==
    LET changed == changed_lines(d)
        tree == parse(source)
    IN  IF ~tree.ok THEN Raise("SyntaxError")
        ELSE Return({tree.body[n].name : n \in
                {m \in 1..Len(tree.body) :
                    /\ tree.body[m].type \in FunctionTypes
                    /\ changed \cap func_lines(tree.body[m]) # {}}})

-----------------------------------------------------------------------------
(* ast.get_source_segment(source, node): the text between the node's start *)
(* and end position, None for a node without position attributes.          *)
(* Statements and expressions carry lineno/end_lineno; an `arguments` node *)
(* (node.args) carries none.  `part` names the columns of an expression    *)
(* inside its line.                                                        *)

NoSegment == [some |-> FALSE, text |-> <<>>, str |-> ""]
Segment(lines) == [some |-> TRUE, text |-> lines, str |-> ""]
SegmentStr(s) == [some |-> TRUE, text |-> <<>>, str |-> s]

DecoratorExpr(i) == [lineno |-> i, end_lineno |-> i, part |-> "decorator"]
ReturnsExpr(node) ==
    [lineno |-> node.lineno, end_lineno |-> node.lineno, part |-> "returns"]
Arguments(node) == [type |-> "arguments"]

get_source_segment(source, node) ==
    IF "lineno" \notin DOMAIN node THEN NoSegment
    ELSE IF "part" \notin DOMAIN node
         THEN Segment(SubSeq(source, node.lineno, node.end_lineno))
    ELSE IF node.part = "decorator"
         THEN SegmentStr(source[node.lineno].name)
    ELSE SegmentStr(source[node.lineno].ret)

\* f"{x}" of a string or of None
Format(seg) == IF seg.some THEN seg.str ELSE "None"

-----------------------------------------------------------------------------
(* context.py: extract_skeleton *)

Sentinel == <<Ln("sentinel", "Error parsing code skeleton.")>>
Placeholder == Ln("body", "...")

\* decorators.append(f"@{dec_src}") for each decorator, joined by "\n"
DecoratorBlock(source, node) ==
    [j \in 1..Len(node.decorator_list) |->
        Ln("deco", Format(get_source_segment(source,
                              DecoratorExpr(node.decorator_list[j]))))]

\* signature = f"def {node.name}({args_src}):", with f" -> {ret_src}" when
\* node.returns is set; then f"{signature}\n    ..."
FunctionBlocks(source, node) ==
    LET args_src == get_source_segment(source, Arguments(node))
        ret_src == get_source_segment(source, ReturnsExpr(node))
        signature ==
            Def(node.name, FALSE, Format(args_src),
                IF node.returns THEN Format(ret_src) ELSE "", FALSE)
    IN  (IF node.decorator_list # <<>>
         THEN <<Segment(DecoratorBlock(source, node))>> ELSE <<>>)
        \o <<Segment(<<signature, Placeholder>>)>>

\* signature = f"async def {node.name}({args_src}):"; node.returns is not read
AsyncFunctionBlocks(source, node) ==
    LET args_src == get_source_segment(source, Arguments(node))
        signature == Def(node.name, TRUE, Format(args_src), "", FALSE)
    IN  (IF node.decorator_list # <<>>
         THEN <<Segment(DecoratorBlock(source, node))>> ELSE <<>>)
        \o <<Segment(<<signature, Placeholder>>)>>

\* the blocks one top-level node appends to skeleton_lines
NodeBlocks(source, node) ==
    CASE node.type \in {"Import", "ImportFrom"} ->
            <<get_source_segment(source, node)>>
      [] node.type = "Assign" -> <<get_source_segment(source, node)>>
      [] node.type = "ClassDef" -> <<get_source_segment(source, node)>>
      [] node.type = "FunctionDef" -> FunctionBlocks(source, node)
      [] node.type = "AsyncFunctionDef" -> AsyncFunctionBlocks(source, node)
      [] OTHER -> <<>>

\* all imports first, then the other statements
RECURSIVE skeleton_lines_grouped(_, _, _)
skeleton_lines_grouped(source, body, n) ==
    LET imports == SelectSeq(body, LAMBDA x : x.type \in {"Import", "ImportFrom"})
        others == SelectSeq(body, LAMBDA x : x.type \notin {"Import", "ImportFrom"})
        ordered == imports \o others
    IN  IF n = 0 THEN <<>>
        ELSE skeleton_lines_grouped(source, body, n - 1)
                \o NodeBlocks(source, ordered[n])

\* for node in tree.body: ... skeleton_lines.append(...), over the first n
\* nodes of the body
RECURSIVE skeleton_lines(_, _, _)
skeleton_lines(source, body, n) ==
    IF n = 0 THEN <<>>
    ELSE skeleton_lines(source, body, n - 1) \o NodeBlocks(source, body[n])

\* "\n\n".join(blocks): a blank line between two blocks, "" for no block
RECURSIVE JoinBlocks(_)
JoinBlocks(blocks) ==
    IF blocks = <<>> THEN <<Blank>>
    ELSE IF Len(blocks) = 1 THEN blocks[1].text
    ELSE blocks[1].text \o <<Blank>> \o JoinBlocks(Tail(blocks))

\* without the try/except around ast.parse
extract_skeleton_unguarded(source) ==
    LET tree == parse(source) IN
    IF ~tree.ok THEN Raise("SyntaxError")
    ELSE Return(JoinBlocks(skeleton_lines(source, tree.body, Len(tree.body))))

extract_skeleton(source) ==
    LET tree == parse(source) IN
    IF ~tree.ok THEN Return(Sentinel)
    ELSE LET blocks == skeleton_lines(source, tree.body, Len(tree.body)) IN
         \* str.join raises TypeError on an item that is None
         IF \E b \in 1..Len(blocks) : ~blocks[b].some THEN Raise("TypeError")
         ELSE Return(JoinBlocks(blocks))

-----------------------------------------------------------------------------
(* smart_update.py: update_test_file *)

\* the names bound in the module namespace of smart_update.py: its two
\* imports and its three functions
ModuleNames ==
    {"ast", "re", "get_changed_functions", "update_test_file",
     "get_existing_test_code"}

Absent == <<>>

\* str.strip() of a text: leading and trailing blank lines go, and so does
\* the indentation of the first line that is left
Dedent(ln) == IF ln.k = "body" THEN [ln EXCEPT !.k = "expr"] ELSE ln

strip(text) ==
    LET solid == {i \in 1..Len(text) : text[i].k # "blank"} IN
    IF solid = {} THEN <<Blank>>
    ELSE LET first == CHOOSE i \in solid : \A j \in solid : i <= j
             last == CHOOSE i \in solid : \A j \in solid : j <= i
             kept == SubSeq(text, first, last)
         IN  [kept EXCEPT ![1] = Dedent(kept[1])]

\* str.splitlines(): no last empty line for a text that ends with "\n",
\* no line at all for the empty string
splitlines(text) ==
    IF text[Len(text)] = Blank THEN SubSeq(text, 1, Len(text) - 1) ELSE text

\* "\n".join(lines)
join_lines(lines) == IF lines = <<>> THEN <<Blank>> ELSE lines

\* for node in tree.body: ... if node.name == test_func_name: break
\* the position in body of the first function of that name, 0 if none
node_to_remove(body, test_func_name) ==
    LET hits == {n \in 1..Len(body) :
                    /\ body[n].type \in FunctionTypes
                    /\ body[n].name = test_func_name}
    IN  IF hits = {} THEN 0 ELSE CHOOSE n \in hits : \A m \in hits : n <= m

\* del lines[node.lineno - 1 : node.end_lineno]
delete_lines(lines, node) ==
    SubSeq(lines, 1, node.lineno - 1)
        \o SubSeq(lines, node.end_lineno + 1, Len(lines))

\* existing_code after the try block: the old function sliced out when the
\* file parses and has it, the text as read otherwise
remove_old_test(existing_code, test_func_name) ==
    LET tree == parse(existing_code)
        n == node_to_remove(tree.body, test_func_name)
    IN  IF ~tree.ok \/ n = 0 THEN existing_code
        ELSE join_lines(delete_lines(splitlines(existing_code), tree.body[n]))

\* the call: what it returns or raises, and the file it leaves
update_test_file(file, new_code, name) ==
    IF "os" \notin ModuleNames
    THEN [result |-> Raise("NameError"), file |-> file]
    ELSE IF file = Absent
    THEN [result |-> Return(None), file |-> new_code]
    ELSE LET test_func_name == "test_" \o name
             existing_code == remove_old_test(file, test_func_name)
             final_code == strip(existing_code) \o <<Blank>> \o strip(new_code)
         IN  [result |-> Return(None), file |-> final_code]

-----------------------------------------------------------------------------
(* smart_update.py: get_existing_test_code *)

\* the statement after the colon of a one-line definition
InlineBody == Ln("body", "pass")

\* ast.unparse(node) of a function: its decorators, its `def` line and its
\* body statements, one per line, without the blank lines of the source
unparse(text, node) ==
    [j \in 1..Len(node.decorator_list) |-> text[node.decorator_list[j]]]
    \o <<[text[node.lineno] EXCEPT !.inline = FALSE]>>
    \o (IF text[node.lineno].inline THEN <<InlineBody>>
        ELSE SelectSeq(SubSeq(text, node.lineno + 1, node.end_lineno),
                       LAMBDA ln : ln.k # "blank"))

\* the call: the value it returns (None is NoSegment) or what it raises
get_existing_test_code(file, func_name) ==
    IF "os" \notin ModuleNames THEN Raise("NameError")
    ELSE IF file = Absent THEN Return(NoSegment)
    ELSE LET test_func_name == "test_" \o func_name
             tree == parse(file)
             n == node_to_remove(tree.body, test_func_name)
         IN  \* except: pass, then return None
             IF ~tree.ok \/ n = 0 THEN Return(NoSegment)
             ELSE Return(Segment(unparse(file, tree.body[n])))

-----------------------------------------------------------------------------
(* app.py: the todo store *)

\* a dict is the list of its items in insertion order
keys(d) == {d[i].key : i \in 1..Len(d)}
index(d, k) == CHOOSE i \in 1..Len(d) : d[i].key = k
getitem(d, k) == d[index(d, k)].value
setitem(d, k, v) ==
    IF k \in keys(d) THEN [d EXCEPT ![index(d, k)].value = v]
    ELSE Append(d, [key |-> k, value |-> v])
pop(d, k) == SelectSeq(d, LAMBDA item : item.key # k)
values(d) == [i \in 1..Len(d) |-> d[i].value]

\* a JSON body: the keys it carries and their values (an absent key holds
\* the filler "" or FALSE)
Json(fields, title, done) ==
    [fields |-> fields, title |-> title, done |-> done]
Supplied(body, field) == field \in body.fields

\* TodoCreate: title is required and has 1 to 100 characters, done defaults
\* to False
TodoCreate(body) ==
    IF /\ Supplied(body, "title")
       /\ Len(body.title) >= 1
       /\ Len(body.title) <= 100
    THEN [ok |-> TRUE,
          payload |-> [title |-> body.title,
                       done |-> Supplied(body, "done") /\ body.done]]
    ELSE [ok |-> FALSE, payload |-> [title |-> "", done |-> FALSE]]

\* TodoUpdate: both fields default to None; a field `is not None` exactly
\* when the body supplies it
TodoUpdate(body) == [ok |-> TRUE, payload |-> body]

NotFound == [status |-> "not_found"]
Ok == [status |-> "ok"]

\* a create_todo that numbers a todo by the size of the store
create_todo_recounting(store, nid, payload) ==
    LET tid == Len(store) + 1
        stored == setitem(store, tid,
                          [id |-> tid, title |-> payload.title,
                           done |-> payload.done])
    IN  [todos |-> stored, next_id |-> nid + 1, json |-> getitem(stored, tid)]

create_todo(store, nid, payload) ==
    LET tid == nid
        stored == setitem(store, tid,
                          [id |-> tid, title |-> payload.title,
                           done |-> payload.done])
    IN  [todos |-> stored, next_id |-> nid + 1, json |-> getitem(stored, tid)]

\* a list_todos that leaves out the todos that are done
list_todos_pending(store) ==
    values(SelectSeq(store, LAMBDA item : ~item.value.done))

list_todos(store) == values(store)

\* an update_todo that stores False for a `done` the payload does not carry
update_todo_overwrite(store, todo_id, payload) ==
    IF todo_id \in keys(store)
    THEN LET old == getitem(store, todo_id)
             new == [old EXCEPT
                       !.title = IF Supplied(payload, "title")
                                 THEN payload.title ELSE @,
                       !.done = Supplied(payload, "done") /\ payload.done]
             stored == setitem(store, todo_id, new)
         IN  [todos |-> stored, json |-> getitem(stored, todo_id)]
    ELSE [todos |-> store, json |-> NotFound]

update_todo(store, todo_id, payload) ==
    IF todo_id \in keys(store)
    THEN LET old == getitem(store, todo_id)
             titled == IF Supplied(payload, "title")
                       THEN setitem(store, todo_id,
                                    [old EXCEPT !.title = payload.title])
                       ELSE store
             stored == IF Supplied(payload, "done")
                       THEN setitem(titled, todo_id,
                                    [getitem(titled, todo_id)
                                       EXCEPT !.done = payload.done])
                       ELSE titled
         IN  [todos |-> stored, json |-> getitem(stored, todo_id)]
    ELSE [todos |-> store, json |-> NotFound]

\* a delete_todo that answers ok for an id that is not in the store
delete_todo_quiet(store, todo_id) ==
    IF todo_id \in keys(store)
    THEN [todos |-> pop(store, todo_id), json |-> Ok]
    ELSE [todos |-> store, json |-> Ok]

delete_todo(store, todo_id) ==
    IF todo_id \in keys(store)
    THEN [todos |-> pop(store, todo_id), json |-> Ok]
    ELSE [todos |-> store, json |-> NotFound]

\* what the framework answers to a body that fails validation
ValidationError ==
    [status_code |-> 422, json |-> [status |-> "validation_error"]]
Success(json) == [status_code |-> 200, json |-> json]

-----------------------------------------------------------------------------
(* generate_tests.py: the driver's prompt *)

\* `if diff`: None and the empty text are false
Truthy(d) == d.some /\ d.text # <<>>

\* the two prompt templates, by the texts they embed
SmartPrompt(skeleton_text, diff_text) ==
    [strategy |-> "SMART CONTEXT", context |-> skeleton_text,
     change |-> diff_text]
FullPrompt(source) ==
    [strategy |-> "FULL CONTEXT", context |-> source, change |-> <<>>]

\* what the chat completion does: it raises, or replies with no content or
\* with a content, a list of tokens
ApiError == [raised |-> "APIError", some |-> FALSE, content |-> <<>>]
NoContent == [raised |-> "", some |-> FALSE, content |-> <<>>]
Content(tokens) == [raised |-> "", some |-> TRUE, content |-> tokens]

\* re.sub(r"python|", "", content).strip()
clean_code(content) ==
    LET kept == SelectSeq(content, LAMBDA t : t # "python")
        solid == {i \in 1..Len(kept) : kept[i] # "\n"}
    IN  IF solid = {} THEN <<>>
        ELSE SubSeq(kept,
                    CHOOSE i \in solid : \A j \in solid : i <= j,
                    CHOOSE i \in solid : \A j \in solid : i >= j)

generate_test_code(source, d, imported, key, reply) ==
    LET smart == Truthy(d) /\ imported
        sk == extract_skeleton(source)
    IN  IF smart /\ sk.raised # "" THEN Raise(sk.raised)
        ELSE LET prompt == IF smart THEN SmartPrompt(sk.value, d.text)
                           ELSE FullPrompt(source)
             IN  \* call_llm: `client` is bound only when API_KEY is set
                 IF ~key THEN Raise("NameError")
                 ELSE IF reply.raised # "" THEN Raise(reply.raised)
                 \* re.sub on a content that is None
                 ELSE IF ~reply.some THEN Raise("TypeError")
                 ELSE Return([clean_code |-> clean_code(reply.content),
                              prompt |-> prompt])

-----------------------------------------------------------------------------
(* validate_generated_test.py: the four checks *)

FORBIDDEN_IMPORTS ==
    {"os", "subprocess", "shutil", "socket", "sys", "requests", "pathlib"}

FORBIDDEN_PATTERNS ==
    << "os\\.system", "subprocess\\.", "shutil\\.", "eval\\(", "exec\\(",
       "open\\(.+\\/etc\\/passwd", "while\\s+True" >>

\* how a check ends: it returns (True, None) or (False, error), or raises
CheckOk == [raised |-> "", ok |-> TRUE, error |-> None]
CheckFail(error) == [raised |-> "", ok |-> FALSE, error |-> error]
CheckRaise(e) == [raised |-> e, ok |-> FALSE, error |-> None]

\* alias.name of an Import, node.module of an ImportFrom; "" on a line that
\* imports nothing
ImportedModule(ln) ==
    CASE ln.name = "import pytest" -> "pytest"
      [] ln.name = "import os.path" -> "os.path"
      [] ln.name = "from sysconfig import x" -> "sysconfig"
      [] ln.name = "import shutil" -> "shutil"
      [] OTHER -> ""

\* module.split(".")[0]
ModuleRoot(module) == IF module = "os.path" THEN "os" ELSE module

\* re.search(pattern, line)
PatternIn(pattern, ln) ==
    \/ pattern = "subprocess\\." /\ ln.name = "subprocess.run(x)"
    \/ pattern = "eval\\(" /\ ln.name = "eval(x)"

\* ast.walk is breadth first: the statements of the module in their order,
\* then the statements of their bodies
walk(text) ==
    SelectSeq([i \in 1..Len(text) |-> text[i]], LAMBDA ln : ln.k # "body")
    \o SelectSeq([i \in 1..Len(text) |-> text[i]], LAMBDA ln : ln.k = "body")

validate_syntax(text) ==
    IF parse(text).ok THEN CheckOk ELSE CheckFail("Syntax error")

validate_imports(text) ==
    IF ~parse(text).ok THEN CheckRaise("SyntaxError")
    ELSE LET forbidden ==
               SelectSeq(walk(text),
                         LAMBDA ln : /\ ImportedModule(ln) # ""
                                     /\ ModuleRoot(ImportedModule(ln))
                                          \in FORBIDDEN_IMPORTS)
         IN  IF forbidden = <<>> THEN CheckOk
             ELSE CheckFail("Forbidden import: "
                            \o ImportedModule(forbidden[1]))

validate_patterns(text) ==
    LET found == SelectSeq(FORBIDDEN_PATTERNS,
                           LAMBDA pattern :
                             \E i \in 1..Len(text) : PatternIn(pattern, text[i]))
    IN  IF found = <<>> THEN CheckOk
        ELSE CheckFail("Forbidden pattern used: " \o found[1])

\* "def test_" not in code
validate_test_format(text) ==
    IF \E i \in 1..Len(text) : text[i].k = "def" /\ text[i].name = "test_foo"
    THEN CheckOk
    ELSE CheckFail("No test functions found")

\* a list of checks that looks at the imports before the syntax
checks_imports_first ==
    << "validate_imports", "validate_syntax", "validate_patterns",
       "validate_test_format" >>

checks ==
    << "validate_syntax", "validate_imports", "validate_patterns",
       "validate_test_format" >>

check(name, text) ==
    CASE name = "validate_syntax" -> validate_syntax(text)
      [] name = "validate_imports" -> validate_imports(text)
      [] name = "validate_patterns" -> validate_patterns(text)
      [] OTHER -> validate_test_format(text)

\* how the script ends
Running == [exited |-> FALSE, status |-> 0, traceback |-> FALSE]
Exit(status) == [exited |-> TRUE, status |-> status, traceback |-> FALSE]
Traceback == [exited |-> TRUE, status |-> 1, traceback |-> TRUE]

-----------------------------------------------------------------------------
(* Inputs *)

RECURSIVE SeqsUpTo(_, _)
SeqsUpTo(S, n) ==
    IF n = 0 THEN {<<>>}
    ELSE LET shorter == SeqsUpTo(S, n - 1) IN
         shorter \cup {Append(s, x) : s \in shorter, x \in S}

MapperAlphabet ==
    { Blank, Ln("deco", "dec"), Ln("body", "pass"),
      Def("foo", FALSE, "", "", FALSE), Def("bar", TRUE, "", "", TRUE) }

MapperSources == SeqsUpTo(MapperAlphabet, MaxAppLines) \ {<<>>}

\* `@@ -a,b +c,d @@` and `@@ -a,b +c @@` at every start line; at line 1 also
\* `@@ -a +1 @@`, `@@ -a +1,1 @@` and the deletion hunk `@@ -a,b +1,0 @@`;
\* and a line that is no hunk header
DiffLines ==
    {Hunk(TRUE, s, TRUE, c) : s \in 1..MaxStart, c \in 1..MaxCount}
    \cup {Hunk(TRUE, s, FALSE, 1) : s \in 1..MaxStart}
    \cup {Hunk(FALSE, 1, FALSE, 1), Hunk(FALSE, 1, TRUE, 1),
          Hunk(TRUE, 1, TRUE, 0), DiffText}

Diffs == SeqsUpTo(DiffLines, MaxHunks)

SkeletonAlphabet ==
    { Blank, Ln("import", "import os"),
      Ln("import_open", "from a import (b,"), Ln("import_close", "c)"),
      Ln("assign", "X = 1"), Ln("expr", "print(X)"), Ln("class", "K"),
      Ln("deco", "app.get('/')"), Ln("body", "return a"),
      Def("sample", FALSE, "a, b=1", "", FALSE),
      Def("home", FALSE, "", "int", TRUE),
      Def("fetch", TRUE, "x: int", "str", TRUE),
      Ln("bad", "def (") }

SkeletonSources == SeqsUpTo(SkeletonAlphabet, MaxLines) \ {<<>>}

TestFileAlphabet ==
    { Blank, Ln("import", "import pytest"), Ln("deco", "pytest.mark.slow"),
      Ln("body", "pass"), Def("test_foo", FALSE, "", "", FALSE),
      Def("test_foo", FALSE, "", "", TRUE), Ln("bad", "def (") }

TestFiles == SeqsUpTo(TestFileAlphabet, MaxLines) \ {<<>>}

\* "def test_foo():\n    assert True", the same between a leading blank line
\* and a final newline, and a one-line test of bar
NewTestCodes ==
    { <<Def("test_foo", FALSE, "", "", FALSE), Ln("body", "assert True")>>,
      <<Blank, Def("test_foo", FALSE, "", "", FALSE),
        Ln("body", "assert True"), Blank>>,
      <<Def("test_bar", FALSE, "", "", TRUE)>> }

BaseNames == {"foo", "bar"}

\* a title of 101 characters, one more than TodoCreate allows
LongTitle ==
    "xxxxxxxxxxxxxxxxxxxxxxxxxxxxxxxxxxxxxxxxxxxxxxxxxxxxxxxxxxxxxxxxxxxxxxxxxxxxxxxxxxxxxxxxxxxxxxxxxxxxx"

Titles == {"", "a", LongTitle}

\* bodies of POST /todos: with or without title and done
CreateBodies ==
    {Json({"title", "done"}, t, b) : t \in Titles, b \in BOOLEAN}
    \cup {Json({"title"}, t, FALSE) : t \in Titles}
    \cup {Json({"done"}, "", TRUE), Json({}, "", FALSE)}

\* bodies of PUT /todos/{todo_id}; TodoUpdate puts no limit on the title
UpdateBodies ==
    {Json({"title", "done"}, t, b) : t \in {"", "a"}, b \in BOOLEAN}
    \cup {Json({"title"}, t, FALSE) : t \in {"", "a"}}
    \cup {Json({"done"}, "", b) : b \in BOOLEAN}
    \cup {Json({}, "", FALSE)}

\* the ids a request can name: every id handed out and one never handed out
TodoIds == 1..(MaxTodos + 1)

NoBody == Json({}, "", FALSE)
NoRequest == [op |-> "", todo_id |-> 0, body |-> NoBody]
NoResponse == [status_code |-> 0, json |-> [status |-> ""]]

\* the diff argument: None, the empty text, or a text of one line
DiffArgs ==
    { NoSegment, Segment(<<>>), Segment(<<Hunk(TRUE, 1, TRUE, 1)>>),
      Segment(<<DiffText>>) }

\* "fence" stands for the three backquotes of a markdown fence
LlmReplies ==
    { ApiError, NoContent, Content(<<>>),
      Content(<<"fence", "python", "\n", "assert True", "\n", "fence">>),
      Content(<<"\n", "assert True", "\n">>) }

ValidationAlphabet ==
    { Ln("import", "import pytest"), Ln("import", "import os.path"),
      Ln("import", "from sysconfig import x"),
      Ln("expr", "eval(x)"), Ln("expr", "subprocess.run(x)"),
      Def("test_foo", FALSE, "", "", TRUE),
      Def("helper", FALSE, "", "", FALSE), Ln("body", "import shutil"),
      Ln("bad", "def (") }

ValidationCodes == SeqsUpTo(ValidationAlphabet, MaxCodeLines) \ {<<>>}

\* the two create_todo requests in flight together
Handlers == {"first", "second"}

\* the payloads that pass TodoCreate
ValidPayloads ==
    {TodoCreate(body).payload : body \in {b \in CreateBodies : TodoCreate(b).ok}}

\* the variables of a component that is not under test
MapperIdle ==
    app_code = <<Blank>> /\ diff = <<>> /\ changed_functions = NotCalled
SkeletonIdle == code = <<Blank>> /\ skeleton = NotCalled
PatcherIdle ==
    /\ test_file = Absent
    /\ new_test_code = <<Blank>>
    /\ function_name = ""
    /\ update_result = NotCalled
    /\ calls = 0
    /\ lookup_result = NotCalled
    /\ lookups = 0
TodoIdle ==
    /\ todos = <<>>
    /\ next_id = 1
    /\ request = NoRequest
    /\ response = NoResponse
    /\ live = {}
    /\ issued = <<>>
DriverIdle ==
    /\ extractor = TRUE
    /\ api_key = TRUE
    /\ diff_arg = NoSegment
    /\ generated = NotCalled
ValidatorIdle ==
    /\ check_index = 1
    /\ checks_run = <<>>
    /\ validation_passed = <<>>
    /\ validation_error = <<>>
    /\ invalid_test = Absent
    /\ artifacts = <<>>
    /\ exit_status = Running
HandlerIdle ==
    /\ pc = [h \in Handlers |-> "done"]
    /\ tids = [h \in Handlers |-> 0]
    /\ payloads = [h \in Handlers |-> [title |-> "", done |-> FALSE]]
    /\ returned = [h \in Handlers |-> NoResponse]

-----------------------------------------------------------------------------
(* The mapper: one call of get_changed_functions on drawn inputs *)

InitMapper ==
    /\ app_code \in MapperSources
    /\ diff \in Diffs
    /\ changed_functions = NotCalled
    /\ SkeletonIdle
    /\ PatcherIdle
    /\ TodoIdle
    /\ DriverIdle
    /\ ValidatorIdle
    /\ HandlerIdle

GetChangedFunctions ==
    /\ changed_functions = NotCalled
    /\ changed_functions' = get_changed_functions(app_code, diff)
    /\ UNCHANGED <<app_code, diff, skeleton_vars, patcher_vars, todo_vars,
                   driver_vars, validator_vars, handler_vars>>

NextMapper == GetChangedFunctions

SpecMapper == InitMapper /\ [][NextMapper]_vars

-----------------------------------------------------------------------------
(* The extractor: one call of extract_skeleton on a drawn source text *)

InitSkeleton ==
    /\ code \in SkeletonSources
    /\ skeleton = NotCalled
    /\ MapperIdle
    /\ PatcherIdle
    /\ TodoIdle
    /\ DriverIdle
    /\ ValidatorIdle
    /\ HandlerIdle

ExtractSkeleton ==
    /\ skeleton = NotCalled
    /\ skeleton' = extract_skeleton(code)
    /\ UNCHANGED <<code, mapper_vars, patcher_vars, todo_vars,
                   driver_vars, validator_vars, handler_vars>>

NextSkeleton == ExtractSkeleton

SpecSkeleton == InitSkeleton /\ [][NextSkeleton]_vars

-----------------------------------------------------------------------------
(* The patcher: calls of update_test_file with the same arguments, and of  *)
(* get_existing_test_code, on a file that is absent or holds a drawn text  *)

InitPatcher ==
    /\ test_file \in {Absent} \cup TestFiles
    /\ new_test_code \in NewTestCodes
    /\ function_name \in BaseNames
    /\ update_result = NotCalled
    /\ calls = 0
    /\ lookup_result = NotCalled
    /\ lookups = 0
    /\ MapperIdle
    /\ SkeletonIdle
    /\ TodoIdle
    /\ DriverIdle
    /\ ValidatorIdle
    /\ HandlerIdle

UpdateTestFile ==
    /\ calls < MaxCalls
    /\ LET out == update_test_file(test_file, new_test_code, function_name) IN
         /\ update_result' = out.result
         /\ test_file' = out.file
    /\ calls' = calls + 1
    /\ UNCHANGED <<new_test_code, function_name, lookup_result, lookups,
                   mapper_vars, skeleton_vars, todo_vars,
                   driver_vars, validator_vars, handler_vars>>

GetExistingTestCode ==
    /\ lookups < 1
    /\ lookup_result' = get_existing_test_code(test_file, function_name)
    /\ lookups' = lookups + 1
    /\ UNCHANGED <<test_file, new_test_code, function_name, update_result,
                   calls, mapper_vars, skeleton_vars, todo_vars,
                   driver_vars, validator_vars, handler_vars>>

NextPatcher == UpdateTestFile \/ GetExistingTestCode

SpecPatcher == InitPatcher /\ [][NextPatcher]_vars

-----------------------------------------------------------------------------
(* The core as a whole: the four operations, each on every kind of input   *)
(* (source text that parses or not, diff with or without hunk headers,     *)
(* test file absent, parseable or unparseable)                             *)

CoreSources ==
    { <<Def("foo", FALSE, "", "", FALSE), Ln("body", "pass")>>,
      <<Ln("import", "import os"), Def("bar", TRUE, "", "", TRUE)>>,
      <<Ln("bad", "def (")>>,
      <<Blank>> }

CoreDiffs ==
    { <<>>, <<DiffText>>, <<Hunk(TRUE, 1, TRUE, 1)>>,
      <<Hunk(TRUE, 1, FALSE, 1)>> }

CoreTestFiles ==
    { Absent,
      <<Ln("import", "import pytest"), Def("test_foo", FALSE, "", "", TRUE)>>,
      <<Ln("bad", "def (")>> }

InitCore ==
    /\ app_code \in CoreSources
    /\ diff \in CoreDiffs
    /\ changed_functions = NotCalled
    /\ code = app_code
    /\ skeleton = NotCalled
    /\ test_file \in CoreTestFiles
    /\ new_test_code \in NewTestCodes
    /\ function_name \in BaseNames
    /\ update_result = NotCalled
    /\ calls = 0
    /\ lookup_result = NotCalled
    /\ lookups = 0
    /\ TodoIdle
    /\ DriverIdle
    /\ ValidatorIdle
    /\ HandlerIdle

NextCore ==
    \/ GetChangedFunctions
    \/ ExtractSkeleton
    \/ UpdateTestFile
    \/ GetExistingTestCode

SpecCore == InitCore /\ [][NextCore]_vars

-----------------------------------------------------------------------------
(* The todo app: requests served one after the other, from the empty store *)

InitTodo ==
    /\ TodoIdle
    /\ MapperIdle
    /\ SkeletonIdle
    /\ PatcherIdle
    /\ DriverIdle
    /\ ValidatorIdle
    /\ HandlerIdle

\* POST /todos
CreateTodo ==
    /\ next_id <= MaxTodos
    /\ \E body \in CreateBodies :
         LET parsed == TodoCreate(body)
             out == create_todo(todos, next_id, parsed.payload)
         IN  /\ request' = [op |-> "create_todo", todo_id |-> 0, body |-> body]
             /\ IF parsed.ok
                THEN /\ todos' = out.todos
                     /\ next_id' = out.next_id
                     /\ response' = Success(out.json)
                     /\ live' = live \cup {out.json.id}
                     /\ issued' = Append(issued, out.json.id)
                ELSE /\ response' = ValidationError
                     /\ UNCHANGED <<todos, next_id, live, issued>>
    /\ UNCHANGED <<mapper_vars, skeleton_vars, patcher_vars,
                   driver_vars, validator_vars, handler_vars>>

\* GET /todos
ListTodos ==
    /\ request' = [op |-> "list_todos", todo_id |-> 0, body |-> NoBody]
    /\ response' = Success(list_todos(todos))
    /\ UNCHANGED <<todos, next_id, live, issued, mapper_vars, skeleton_vars,
                   patcher_vars,
                   driver_vars, validator_vars, handler_vars>>

\* PUT /todos/{todo_id}
UpdateTodo ==
    /\ \E todo_id \in TodoIds, body \in UpdateBodies :
         LET parsed == TodoUpdate(body)
             out == update_todo(todos, todo_id, parsed.payload)
         IN  /\ request' = [op |-> "update_todo", todo_id |-> todo_id,
                            body |-> body]
             /\ todos' = out.todos
             /\ response' = Success(out.json)
    /\ UNCHANGED <<next_id, live, issued, mapper_vars, skeleton_vars,
                   patcher_vars,
                   driver_vars, validator_vars, handler_vars>>

\* DELETE /todos/{todo_id}
DeleteTodo ==
    /\ \E todo_id \in TodoIds :
         LET out == delete_todo(todos, todo_id) IN
         /\ request' = [op |-> "delete_todo", todo_id |-> todo_id,
                        body |-> NoBody]
         /\ todos' = out.todos
         /\ response' = Success(out.json)
         /\ live' = IF out.json = Ok THEN live \ {todo_id} ELSE live
    /\ UNCHANGED <<next_id, issued, mapper_vars, skeleton_vars,
                   patcher_vars,
                   driver_vars, validator_vars, handler_vars>>

NextTodo == CreateTodo \/ ListTodos \/ UpdateTodo \/ DeleteTodo

SpecTodo == InitTodo /\ [][NextTodo]_vars

-----------------------------------------------------------------------------
(* The todo app under its tests: requests served one after the other, and  *)
(* the fixture clear_todos emptying the store between them                 *)

\* todos.clear()
ClearTodos ==
    /\ todos' = <<>>
    /\ UNCHANGED <<next_id, request, response, live, issued, mapper_vars,
                   skeleton_vars, patcher_vars, driver_vars, validator_vars,
                   handler_vars>>

NextFixture == NextTodo \/ ClearTodos

SpecFixture == InitTodo /\ [][NextFixture]_vars

-----------------------------------------------------------------------------
(* Two create_todo requests served by two worker threads on a fresh app,   *)
(* interleaved statement by statement                                      *)

InitConcurrent ==
    /\ todos = <<>>
    /\ next_id = 1
    /\ request = NoRequest
    /\ response = NoResponse
    /\ live = {}
    /\ issued = <<>>
    /\ pc = [h \in Handlers |-> "tid = next_id"]
    /\ tids = [h \in Handlers |-> 0]
    /\ payloads \in [Handlers -> ValidPayloads]
    /\ returned = [h \in Handlers |-> NoResponse]
    /\ MapperIdle
    /\ SkeletonIdle
    /\ PatcherIdle
    /\ DriverIdle
    /\ ValidatorIdle

\* the variables the handlers of the app do not touch
other_vars ==
    <<mapper_vars, skeleton_vars, patcher_vars, driver_vars, validator_vars>>

\* tid = next_id
ReadNextId(h) ==
    /\ pc[h] = "tid = next_id"
    /\ tids' = [tids EXCEPT ![h] = next_id]
    /\ pc' = [pc EXCEPT ![h] = "todos[tid] = ..."]
    /\ UNCHANGED <<todo_vars, payloads, returned, other_vars>>

\* todos[tid] = {"id": tid, "title": payload.title, "done": payload.done}
StoreRecord(h) ==
    /\ pc[h] = "todos[tid] = ..."
    /\ todos' = setitem(todos, tids[h],
                        [id |-> tids[h], title |-> payloads[h].title,
                         done |-> payloads[h].done])
    /\ pc' = [pc EXCEPT ![h] = "next_id += 1"]
    /\ UNCHANGED <<next_id, request, response, live, issued, tids, payloads,
                   returned, other_vars>>

\* next_id += 1
IncrementNextId(h) ==
    /\ pc[h] = "next_id += 1"
    /\ next_id' = next_id + 1
    /\ pc' = [pc EXCEPT ![h] = "return todos[tid]"]
    /\ UNCHANGED <<todos, request, response, live, issued, tids, payloads,
                   returned, other_vars>>

\* return todos[tid]
ReturnRecord(h) ==
    /\ pc[h] = "return todos[tid]"
    /\ returned' = [returned EXCEPT ![h] = Success(getitem(todos, tids[h]))]
    /\ issued' = Append(issued, tids[h])
    /\ pc' = [pc EXCEPT ![h] = "done"]
    /\ UNCHANGED <<todos, next_id, request, response, live, tids, payloads,
                   other_vars>>

NextConcurrent ==
    \E h \in Handlers :
        \/ ReadNextId(h)
        \/ StoreRecord(h)
        \/ IncrementNextId(h)
        \/ ReturnRecord(h)

SpecConcurrent == InitConcurrent /\ [][NextConcurrent]_vars

-----------------------------------------------------------------------------
(* The driver: one call of generate_test_code on a drawn source text and   *)
(* diff, with the extractor imported or not and the client bound or not    *)

InitDriver ==
    /\ app_code \in CoreSources
    /\ diff = <<>>
    /\ changed_functions = NotCalled
    /\ extractor \in BOOLEAN
    /\ api_key \in BOOLEAN
    /\ diff_arg \in DiffArgs
    /\ generated = NotCalled
    /\ SkeletonIdle
    /\ PatcherIdle
    /\ TodoIdle
    /\ ValidatorIdle
    /\ HandlerIdle

GenerateTestCode ==
    /\ generated = NotCalled
    /\ \E reply \in LlmReplies :
         generated' = generate_test_code(app_code, diff_arg, extractor,
                                         api_key, reply)
    /\ UNCHANGED <<extractor, api_key, diff_arg, mapper_vars, skeleton_vars,
                   patcher_vars, todo_vars,
                   validator_vars, handler_vars>>

NextDriver == GenerateTestCode

SpecDriver == InitDriver /\ [][NextDriver]_vars

-----------------------------------------------------------------------------
(* The validation script: the main block run on a drawn generated test,    *)
(* one pass of its loop at a time                                          *)

InitValidator ==
    /\ code \in ValidationCodes
    /\ skeleton = NotCalled
    /\ ValidatorIdle
    /\ HandlerIdle
    /\ MapperIdle
    /\ PatcherIdle
    /\ TodoIdle
    /\ DriverIdle

\* one pass of `for check in checks`
RunCheck ==
    /\ ~exit_status.exited
    /\ check_index <= Len(checks)
    /\ LET name == checks[check_index]
           result == check(name, code)
       IN  /\ checks_run' = Append(checks_run, name)
           /\ IF result.raised # ""
              THEN /\ exit_status' = Traceback
                   /\ UNCHANGED <<check_index, validation_passed,
                                  validation_error, invalid_test, artifacts>>
              ELSE IF ~result.ok
              THEN /\ validation_passed' = Append(validation_passed, 0)
                   /\ validation_error' = Append(validation_error, result.error)
                   /\ invalid_test' = code
                   /\ artifacts' = Append(artifacts, code)
                   /\ exit_status' = Exit(1)
                   /\ UNCHANGED check_index
              ELSE /\ check_index' = check_index + 1
                   /\ UNCHANGED <<validation_passed, validation_error,
                                  invalid_test, artifacts, exit_status>>
    /\ UNCHANGED <<code, skeleton, mapper_vars, patcher_vars, todo_vars,
                   driver_vars, handler_vars>>

\* after the loop: "Validation Passed"
ValidationPassed ==
    /\ ~exit_status.exited
    /\ check_index > Len(checks)
    /\ validation_passed' = Append(validation_passed, 1)
    /\ exit_status' = Exit(0)
    /\ UNCHANGED <<check_index, checks_run, validation_error, invalid_test,
                   artifacts, code, skeleton, mapper_vars, patcher_vars,
                   todo_vars, driver_vars, handler_vars>>

NextValidator == RunCheck \/ ValidationPassed

SpecValidator == InitValidator /\ [][NextValidator]_vars

-----------------------------------------------------------------------------
(* Properties of get_changed_functions *)

MapperCalled == changed_functions # NotCalled
FunctionNames == {"foo", "bar"}

\* the lines the hunk headers `@@ -a,b +c,d @@` of the diff declare changed
DeclaredChanged ==
    {l \in 1..(MaxStart + MaxCount) :
        \E i \in 1..Len(diff) :
            /\ diff[i].k = "hunk" /\ diff[i].old_count /\ diff[i].new_count
            /\ diff[i].start <= l /\ l <= diff[i].start + diff[i].count - 1}

TopLevelFunctions ==
    LET tree == parse(app_code) IN
    {tree.body[n] : n \in {m \in 1..Len(tree.body) :
                              tree.body[m].type \in FunctionTypes}}

C2_MissingCountIsOne ==
    (MapperCalled /\ parse(app_code).ok) =>
        \A i \in 1..Len(diff) :
            (diff[i].k = "hunk" /\ ~diff[i].new_count) =>
                \A node \in TopLevelFunctions :
                    diff[i].start \in node.lineno..node.end_lineno =>
                        /\ changed_functions.returned
                        /\ node.name \in changed_functions.value

\* C3: with a diff that has no hunk header at all (the empty diff among
\* them) the call returns the empty set for every source text, also one
\* that does not parse; it does not raise.
C3_NoHunkEmptySet ==
    (MapperCalled /\ \A i \in 1..Len(diff) : diff[i].k # "hunk") =>
        /\ changed_functions.returned
        /\ changed_functions.value = {}

\* the lines of a top-level definition, read off the text: from the line of
\* the `def` keyword to the last line of its block
DefLines(text) == {i \in 1..Len(text) : text[i].k = "def"}
DefSpan(text, i) ==
    i..(IF text[i].inline THEN i ELSE BlockEnd(text, i))

\* C4: the range of a decorated function starts at its `def` line: when the
\* changed lines meet no line from the def line to the last body line of any
\* definition of a name, that name is not returned, whatever decorator lines
\* the diff covers.
C4_DecoratorLinesExcluded ==
    changed_functions.returned =>
        \A f \in FunctionNames :
            (\A i \in DefLines(app_code) :
                app_code[i].name = f =>
                    DefSpan(app_code, i) \cap DeclaredChanged = {})
            => f \notin changed_functions.value

\* the diff covers the decorator line of foo and nothing of foo itself
C4_Witness ==
    /\ changed_functions.returned
    /\ "foo" \notin changed_functions.value
    /\ \E node \in TopLevelFunctions :
          /\ node.name = "foo"
          /\ node.decorator_list # <<>>
          /\ \A j \in 1..Len(node.decorator_list) :
                node.decorator_list[j] \in DeclaredChanged
          /\ \A l \in node.lineno..node.end_lineno : l \notin DeclaredChanged

-----------------------------------------------------------------------------
(* Properties of extract_skeleton *)

SkeletonCalled == skeleton # NotCalled

\* C5: the call never raises; a source that parses yields a skeleton
\* document, a source that does not parse yields exactly the sentinel text
\* "Error parsing code skeleton." and no part of a skeleton.
C5_NeverRaises ==
    SkeletonCalled =>
        /\ skeleton.returned
        /\ parse(code).ok =>
              \A i \in 1..Len(skeleton.value) :
                  skeleton.value[i].k # "sentinel"
        /\ ~parse(code).ok => skeleton.value = Sentinel

\* a valid import is followed by a line that does not parse: the result is
\* the sentinel alone
C5_Witness ==
    /\ skeleton.returned
    /\ skeleton.value = Sentinel
    /\ Len(code) > 1
    /\ code[1].k = "import"

\* C6: every top-level function of the source has a signature line in the
\* skeleton with its name and its parameter list as written, followed by
\* exactly one placeholder line `...`.
C6_SignatureKeepsParameters ==
    (skeleton.returned /\ parse(code).ok) =>
        \A i \in DefLines(code) :
            \E j \in 1..(Len(skeleton.value) - 1) :
                /\ skeleton.value[j].k = "def"
                /\ skeleton.value[j].name = code[i].name
                /\ skeleton.value[j].params = code[i].params
                /\ skeleton.value[j + 1] = Placeholder
                /\ j + 2 <= Len(skeleton.value) =>
                      skeleton.value[j + 2].k # "body"

ImportKinds == {"import", "import_open", "import_close"}
IsImportLine(ln) == ln.k \in ImportKinds
\* the first lines of the statements the skeleton preserves
IsPreservedHead(ln) == ln.k \in {"import", "import_open", "assign", "class", "def"}

RECURSIVE HeadsOf(_)
HeadsOf(text) ==
    IF text = <<>> THEN <<>>
    ELSE (IF IsPreservedHead(text[1])
          THEN <<(<<text[1].k, text[1].name>>)>> ELSE <<>>)
         \o HeadsOf(Tail(text))

\* C7: the skeleton of a source that parses keeps the preserved top-level
\* statements (imports, assignments, classes, functions) in source order,
\* none dropped or repeated, and its import lines are the import statements
\* of the source, line for line.
C7_OrderPreservingProjection ==
    (skeleton.returned /\ parse(code).ok) =>
        /\ HeadsOf(skeleton.value) = HeadsOf(code)
        /\ SelectSeq(skeleton.value, IsImportLine)
             = SelectSeq(code, IsImportLine)

\* an assignment, then an import spread over two lines, then a function
C7_Witness ==
    /\ skeleton.returned
    /\ parse(code).ok
    /\ Len(code) = 4
    /\ code[1].k = "assign"
    /\ code[2].k = "import_open"
    /\ code[4].k = "def"
    /\ Len(skeleton.value) > Len(code)

\* C8: every top-level function with a return annotation, async or not,
\* has a signature line in the skeleton that carries `-> <return-type>`.
C8_ReturnAnnotationKept ==
    (skeleton.returned /\ parse(code).ok) =>
        \A i \in DefLines(code) :
            code[i].ret # "" =>
                \E j \in 1..Len(skeleton.value) :
                    /\ skeleton.value[j].k = "def"
                    /\ skeleton.value[j].name = code[i].name
                    /\ skeleton.value[j].async = code[i].async
                    /\ skeleton.value[j].ret = code[i].ret

-----------------------------------------------------------------------------
(* Properties of update_test_file *)

\* a step that is one call of update_test_file
IsUpdateCall == calls' = calls + 1

\* C9: a call on a path that does not exist returns normally and leaves a
\* file whose content is exactly the new test code, untrimmed.
C9_AbsentFileGetsNewCode ==
    [][(IsUpdateCall /\ test_file = Absent) =>
          /\ update_result'.returned
          /\ test_file' = new_test_code]_vars

TestFuncName == "test_" \o function_name
DefsNamed(text, name) == {i \in DefLines(text) : text[i].name = name}
CountKind(text, k) == Cardinality({i \in 1..Len(text) : text[i].k = k})
\* the lines of a definition with what is attached to it: its decorator
\* lines and the lines from `def` to the end of its body
OldDefinition(text, name) ==
    LET tree == parse(text)
        n == CHOOSE m \in 1..Len(tree.body) :
                tree.body[m].type \in FunctionTypes /\ tree.body[m].name = name
        node == tree.body[n]
    IN  [decorators |-> Len(node.decorator_list),
         body |-> CountKind(SubSeq(text, node.lineno, node.end_lineno), "body")]

\* C10: a call on an existing file that parses and defines test_<name>, with
\* new code that defines it once, returns and leaves a file with exactly one
\* definition of that name, whose text is the new code; the decorator and
\* body lines of the old definition are gone.
C10_OldDefinitionReplaced ==
    [][(/\ IsUpdateCall
        /\ test_file # Absent
        /\ parse(test_file).ok
        /\ Cardinality(DefsNamed(test_file, TestFuncName)) = 1
        /\ Cardinality(DefsNamed(new_test_code, TestFuncName)) = 1) =>
          /\ update_result'.returned
          /\ Cardinality(DefsNamed(test_file', TestFuncName)) = 1
          /\ LET new == strip(new_test_code) IN
             SubSeq(test_file', Len(test_file') - Len(new) + 1, Len(test_file'))
                = new
          /\ LET old == OldDefinition(test_file, TestFuncName) IN
             /\ CountKind(test_file', "deco")
                  = CountKind(test_file, "deco") - old.decorators
                    + CountKind(new_test_code, "deco")
             /\ CountKind(test_file', "body")
                  = CountKind(test_file, "body") - old.body
                    + CountKind(new_test_code, "body")]_vars

\* C11: the patch is idempotent: a second call with the same arguments
\* returns like the first and leaves the file the first call left.
C11_SecondCallChangesNothing ==
    [][(IsUpdateCall /\ calls = 1) =>
          /\ update_result.returned
          /\ update_result'.returned
          /\ test_file' = test_file]_vars

\* C12: a call on an existing file that does not parse returns and writes
\* the whole existing text, trimmed, a blank line, and the new code, trimmed.
C12_UnparsableFileAppendOnly ==
    [][(IsUpdateCall /\ test_file # Absent /\ ~parse(test_file).ok) =>
          /\ update_result'.returned
          /\ test_file'
               = strip(test_file) \o <<Blank>> \o strip(new_test_code)]_vars

\* a step that is one call of get_existing_test_code
IsLookupCall == lookups' = lookups + 1

\* the first top-level definition of a name in a text that parses, as the
\* lines of the file from its first decorator to the end of its body
ExistingText(text, name) ==
    LET tree == parse(text)
        hits == {m \in 1..Len(tree.body) :
                    tree.body[m].type \in FunctionTypes
                    /\ tree.body[m].name = name}
        node == tree.body[CHOOSE m \in hits : \A h \in hits : m <= h]
        first == IF node.decorator_list = <<>> THEN node.lineno
                 ELSE node.decorator_list[1]
    IN  SubSeq(text, first, node.end_lineno)

\* C13: the lookup never raises and never changes the file; it returns None
\* when the file is absent, does not parse or has no top-level test_<name>,
\* and the text of that function otherwise.
C13_LookupReturnsTextOrNone ==
    [][IsLookupCall =>
          /\ lookup_result'.returned
          /\ test_file' = test_file
          /\ IF test_file = Absent THEN ~lookup_result'.value.some
             ELSE IF ~parse(test_file).ok THEN ~lookup_result'.value.some
             ELSE IF DefsNamed(test_file, TestFuncName) = {}
                  THEN ~lookup_result'.value.some
             ELSE /\ lookup_result'.value.some
                  /\ lookup_result'.value.text
                       = ExistingText(test_file, TestFuncName)]_vars

\* the lines of a text outside the lines lo..hi, in their order
LinesOutside(text, lo, hi) ==
    LET idx == {i \in 1..Len(text) : i < lo \/ i > hi} IN
    [j \in 1..Cardinality(idx) |->
        text[CHOOSE i \in idx : Cardinality({m \in idx : m < i}) = j - 1]]

\* C19: when a call replaces the test function of a file that parses, the
\* file it leaves is the lines outside the removed range, unchanged and in
\* order, trimmed, then one blank line, then the new code, trimmed.
C19_OtherLinesKeptNewCodeLast ==
    [][(/\ IsUpdateCall
        /\ test_file # Absent
        /\ parse(test_file).ok
        /\ DefsNamed(test_file, TestFuncName) # {}) =>
          /\ update_result'.returned
          /\ LET tree == parse(test_file)
                 node == tree.body[node_to_remove(tree.body, TestFuncName)]
                 rest == LinesOutside(splitlines(test_file),
                                      node.lineno, node.end_lineno)
             IN  test_file'
                   = strip(join_lines(rest)) \o <<Blank>>
                     \o strip(new_test_code)]_vars

-----------------------------------------------------------------------------
\* C14: none of the four core operations ends in an error: on every
\* combination of inputs (source text valid or not, any diff text, test file
\* absent, parseable or unparseable) each call that was made has returned,
\* with its value or with a degraded fallback, and has raised nothing.
C14_NoOperationRaises ==
    /\ changed_functions.raised = ""
    /\ skeleton.raised = ""
    /\ update_result.raised = ""
    /\ lookup_result.raised = ""

-----------------------------------------------------------------------------
\* C15: update_todo and delete_todo on an id that is not a key of the store
\* answer {"status": "not_found"} and leave the store, every record of it,
\* and the next-id counter as they were.
C15_MissingIdNotFound ==
    [][(/\ request'.op \in {"update_todo", "delete_todo"}
        /\ request'.todo_id \notin keys(todos))
       => /\ response'.json = NotFound
          /\ todos' = todos
          /\ next_id' = next_id]_vars

\* a delete of an id that was handed out and deleted before, answered
\* not_found while other todos are stored
C15_Witness ==
    /\ request.op = "delete_todo"
    /\ response.json = NotFound
    /\ request.todo_id < next_id
    /\ request.todo_id \notin keys(todos)
    /\ todos # <<>>

-----------------------------------------------------------------------------
\* C16: update_todo on an existing id changes only the fields the payload
\* supplies: a field it supplies takes the payload's value, a field it does
\* not supply and the id stay as they were, every other todo stays as it
\* was, and the response is the updated record of that id.
C16_UpdateChangesSuppliedFieldsOnly ==
    [][(/\ request'.op = "update_todo"
        /\ request'.todo_id \in keys(todos))
       => LET k == request'.todo_id
              body == request'.body
              old == getitem(todos, k)
              new == getitem(todos', k)
          IN  /\ Len(todos') = Len(todos)
              /\ \A i \in 1..Len(todos) :
                    /\ todos'[i].key = todos[i].key
                    /\ todos[i].key # k => todos'[i] = todos[i]
              /\ new.id = old.id
              /\ new.title = IF Supplied(body, "title") THEN body.title
                              ELSE old.title
              /\ new.done = IF Supplied(body, "done") THEN body.done
                             ELSE old.done
              /\ response'.json = new
              /\ next_id' = next_id]_vars

\* an update that carried only a title, of a todo that is done and keeps a
\* changed title, beside another todo
C16_Witness ==
    /\ request.op = "update_todo"
    /\ request.body.fields = {"title"}
    /\ request.todo_id \in keys(todos)
    /\ response.json = getitem(todos, request.todo_id)
    /\ response.json.done
    /\ response.json.title = ""
    /\ Len(todos) > 1

-----------------------------------------------------------------------------
\* C17: from the empty store, after any create, update and delete requests,
\* list_todos returns exactly one record for every todo created and not
\* since deleted; create_todo returns a record with an id and the payload's
\* title and done and adds it to the store; delete_todo on an existing id
\* answers {"status": "ok"} and removes that record and no other.
C17_ListIsCreatedMinusDeleted ==
    [][/\ request'.op = "list_todos"
          => LET listed == response'.json IN
             /\ {listed[i].id : i \in 1..Len(listed)} = live
             /\ Len(listed) = Cardinality(live)
             /\ \A i \in 1..Len(listed) :
                   listed[i] = getitem(todos, listed[i].id)
       /\ (request'.op = "create_todo" /\ TodoCreate(request'.body).ok)
          => LET created == response'.json
                 payload == TodoCreate(request'.body).payload
             IN  /\ response'.status_code = 200
                 /\ created.id \notin keys(todos)
                 /\ created.title = payload.title
                 /\ created.done = payload.done
                 /\ todos' = Append(todos, [key |-> created.id,
                                            value |-> created])
       /\ (request'.op = "delete_todo" /\ request'.todo_id \in keys(todos))
          => /\ response'.json = Ok
             /\ request'.todo_id \notin keys(todos')
             /\ todos' = SelectSeq(todos,
                    LAMBDA item : item.key # request'.todo_id)]_vars

\* a listing of two todos, one of them done, after a third was deleted
C17_Witness ==
    /\ request.op = "list_todos"
    /\ Len(response.json) = 2
    /\ \E i \in 1..2 : response.json[i].done
    /\ Cardinality(live) = 2
    /\ next_id = 4

-----------------------------------------------------------------------------
\* C18: create_todo accepts a payload whose title is the empty string: the
\* request is answered with status 200, and a todo with title "" and the
\* payload's done value is stored and returned.
C18_EmptyTitleAccepted ==
    [][(/\ request'.op = "create_todo"
        /\ Supplied(request'.body, "title")
        /\ request'.body.title = "")
       => /\ response'.status_code = 200
          /\ response'.json.title = ""
          /\ response'.json.done
                = (Supplied(request'.body, "done") /\ request'.body.done)
          /\ response'.json.id \in keys(todos')
          /\ getitem(todos', response'.json.id) = response'.json]_vars

-----------------------------------------------------------------------------
\* C20: in generate_test_code, when a diff is present and the app source
\* does not parse, the extractor's error sentinel is detected: the prompt
\* sent to the LLM is the full-context prompt with the full source text,
\* and the sentinel is not embedded as the skeleton.
C20_SentinelFallsBackToFullSource ==
    (generated.returned /\ Truthy(diff_arg) /\ ~parse(app_code).ok)
        => /\ generated.value.prompt = FullPrompt(app_code)
           /\ generated.value.prompt.context # Sentinel

-----------------------------------------------------------------------------
\* the order the checks are to run in
ChecksOrder ==
    << "validate_syntax", "validate_imports", "validate_patterns",
       "validate_test_format" >>

\* C21: the validation script runs its checks in the order syntax, imports,
\* patterns, test format and stops at the first that fails: every check run
\* before the last one run has passed; when the script has exited with 1 the
\* last check run failed, validation_passed = 0 and that check's error are
\* logged and the rejected code is saved; validation_passed = 1 and exit 0
\* come only after all four checks have passed; validate_imports is never
\* called on code that fails validate_syntax, and no check raises.
C21_ChecksInOrderStopAtFirstFailure ==
    /\ Len(checks_run) <= Len(ChecksOrder)
    /\ checks_run = SubSeq(ChecksOrder, 1, Len(checks_run))
    /\ \A i \in 1..(Len(checks_run) - 1) : check(checks_run[i], code) = CheckOk
    /\ ~exit_status.traceback
    /\ (\E i \in 1..Len(checks_run) : checks_run[i] = "validate_imports")
          => validate_syntax(code).ok
    /\ ~exit_status.exited
          => /\ validation_passed = <<>>
             /\ validation_error = <<>>
             /\ invalid_test = Absent
             /\ artifacts = <<>>
    /\ (exit_status.exited /\ exit_status.status = 1)
          => /\ checks_run # <<>>
             /\ LET last == check(checks_run[Len(checks_run)], code) IN
                /\ ~last.ok
                /\ validation_error = <<last.error>>
             /\ validation_passed = <<0>>
             /\ invalid_test = code
             /\ artifacts = <<code>>
    /\ (exit_status.exited /\ exit_status.status = 0)
          => /\ checks_run = ChecksOrder
             /\ \A i \in 1..Len(ChecksOrder) : check(ChecksOrder[i], code).ok
             /\ validation_passed = <<1>>
             /\ validation_error = <<>>
             /\ invalid_test = Absent
    /\ (\E i \in 1..Len(validation_passed) : validation_passed[i] = 1)
          => exit_status = Exit(0)

\* the script has exited with 1 at the third check, on code that parses,
\* imports nothing forbidden and would fail the fourth check too
C21_Witness ==
    /\ exit_status = Exit(1)
    /\ checks_run = SubSeq(ChecksOrder, 1, 3)
    /\ validation_error = <<"Forbidden pattern used: eval\\(">>
    /\ ~validate_test_format(code).ok

-----------------------------------------------------------------------------
\* C22: under any sequence of create, update and delete requests and clears
\* of the store, every stored record's id equals its key, next_id is greater
\* than every key of the store, and create_todo never returns an id it has
\* returned before, also after that todo was deleted or the store cleared.
C22_IdsMatchKeysAndAreNeverReused ==
    /\ \A i \in 1..Len(todos) : todos[i].value.id = todos[i].key
    /\ \A k \in keys(todos) : next_id > k
    /\ \A i, j \in 1..Len(issued) : i # j => issued[i] # issued[j]

\* a third create, after todo 2 was deleted and the store with todo 1 in it
\* was cleared
C22_Witness ==
    /\ request.op = "create_todo"
    /\ response.status_code = 200
    /\ Len(issued) = 3
    /\ keys(todos) = {response.json.id}
    /\ Cardinality(live) = 2

-----------------------------------------------------------------------------
\* C23: when two create_todo requests run concurrently, interleaved statement
\* by statement, then once both have returned they have returned distinct
\* ids, both records are in the store, and next_id has advanced by two.
C23_ConcurrentCreatesGetDistinctIds ==
    (\A h \in Handlers : pc[h] = "done")
        => /\ \A g, h \in Handlers :
                 g # h => returned[g].json.id # returned[h].json.id
           /\ \A h \in Handlers :
                 /\ returned[h].json.id \in keys(todos)
                 /\ returned[h].json.title = payloads[h].title
                 /\ returned[h].json.done = payloads[h].done
           /\ Len(todos) = Cardinality(Handlers)
           /\ next_id = 1 + Cardinality(Handlers)

====
